---- MODULE Spec2Model ----
(***************************************************************************)
(* Forward_Index_Builder (include/pisa/forward_index_builder.hpp).         *)
(*                                                                         *)
(* build() reads records from a source, groups them into batches, runs     *)
(* one batch processor (run) per batch on a task group behind a bounded    *)
(* queue of permits, waits for the group, merges the batch files (merge,   *)
(* collect_terms, reverse_mapping) and removes them (remove_batches).      *)
(*                                                                         *)
(* Strings are sequences of character codes, text files are sequences of   *)
(* character codes with '\n' line terminators, binary index files are      *)
(* sequences of 32-bit words.                                              *)
(***************************************************************************)
EXTENDS Integers, Sequences, FiniteSets, TLC

\* ------------------------------------------------------------------ bounds
\* longest record sequence the source yields
MaxRecords == 3
\* largest value of the threads parameter
MaxThreads == 3
\* largest value of the batch_size parameter
MaxBatchSize == 2

\* ------------------------------------------------------- characters, strings
\* '\n', the line terminator of the text files
NL == 10

\* std::isspace in the "C" locale: \t \n \v \f \r and space
IsSpace(c) == c \in {9, 10, 11, 12, 13, 32}

\* operator< of std::string: byte-wise lexicographic, a proper prefix is smaller
RECURSIVE StrLess(_, _)
StrLess(a, b) ==
    IF b = <<>> THEN FALSE
    ELSE IF a = <<>> THEN TRUE
    ELSE IF Head(a) # Head(b) THEN Head(a) < Head(b)
    ELSE StrLess(Tail(a), Tail(b))

\* os << line << '\n'
WriteLine(file, line) == file \o line \o <<NL>>

\* os << line << '\n' for every line of a vector, in order
RECURSIVE WriteLines(_, _)
WriteLines(file, lines) ==
    IF lines = <<>> THEN file
    ELSE WriteLines(WriteLine(file, Head(lines)), Tail(lines))

\* while (std::getline(is, term)) terms.push_back(term): the lines of a text
\* file; a last line without terminator is still read, an empty rest is not
RECURSIVE GetLines(_, _, _)
GetLines(bytes, cur, acc) ==
    IF bytes = <<>>
    THEN IF cur = <<>> THEN acc ELSE Append(acc, cur)
    ELSE IF Head(bytes) = NL
         THEN GetLines(Tail(bytes), <<>>, Append(acc, cur))
         ELSE GetLines(Tail(bytes), Append(cur, Head(bytes)), acc)

ReadLines(bytes) == GetLines(bytes, <<>>, <<>>)

\* io::read_string_vector: the lines of a text file as a vector of strings
read_string_vector(bytes) == ReadLines(bytes)

\* parse_plaintext_content: while (content_stream >> term) process(term);
\* the maximal runs of non-whitespace characters, in order
RECURSIVE SplitWords(_, _, _)
SplitWords(content, cur, acc) ==
    IF content = <<>>
    THEN IF cur = <<>> THEN acc ELSE Append(acc, cur)
    ELSE IF IsSpace(Head(content))
         THEN SplitWords(Tail(content), <<>>,
                         IF cur = <<>> THEN acc ELSE Append(acc, cur))
         ELSE SplitWords(Tail(content), Append(cur, Head(content)), acc)

parse_plaintext_content(content) == SplitWords(content, <<>>, <<>>)

\* the process_term callback: ASCII upper case letters are lowered and
\* characters that are not alphanumeric are removed (the result may be empty)
RECURSIVE process_term(_)
process_term(term) ==
    IF term = <<>> THEN <<>>
    ELSE LET c == Head(term)
             rest == process_term(Tail(term))
         IN IF c \in 65..90 THEN <<c + 32>> \o rest
            ELSE IF c \in 97..122 \/ c \in 48..57 THEN <<c>> \o rest
            ELSE rest

\* the raw terms of a record's content, each passed through process_term
RawTerms(content) == parse_plaintext_content(content)

\* ----------------------------------------------------------- sort, merge, unique
\* std::inplace_merge of two sorted ranges (stable: on a tie the left comes first)
RECURSIVE inplace_merge(_, _)
inplace_merge(l, r) ==
    IF l = <<>> THEN r
    ELSE IF r = <<>> THEN l
    ELSE IF StrLess(Head(r), Head(l))
         THEN <<Head(r)>> \o inplace_merge(l, Tail(r))
         ELSE <<Head(l)>> \o inplace_merge(Tail(l), r)

\* the range left as it was read
sort_none(v) == v

\* std::sort of a range of strings
RECURSIVE sort(_)
sort(v) ==
    IF Len(v) <= 1 THEN v
    ELSE LET h == Len(v) \div 2
         IN inplace_merge(sort(SubSeq(v, 1, h)), sort(SubSeq(v, h + 1, Len(v))))

\* no element removed
unique_none(v) == v

\* std::unique: of every run of equal adjacent elements the first is kept
RECURSIVE unique(_)
unique(v) ==
    IF Len(v) <= 1 THEN v
    ELSE IF v[1] = v[2] THEN unique(Tail(v))
    ELSE <<v[1]>> \o unique(Tail(v))

\* ------------------------------------------------------------ binary index
\* write_document: a 32-bit length followed by the elements
write_document(os, ids) == os \o <<Len(ids)>> \o ids

\* write_header: the document count as a document of one element
write_header(os, document_count) == write_document(os, <<document_count>>)

\* is.ignore(8): the bytes of the first two 32-bit words are skipped
ignore8(words) == SubSeq(words, 3, Len(words))

\* the sequences of a binary collection, in file order: each is a length word
\* followed by that many words (binary_collection's iterator)
RECURSIVE Sequences(_)
Sequences(words) ==
    IF words = <<>> THEN <<>>
    ELSE LET n == Head(words)
         IN <<SubSeq(words, 2, n + 1)>> \o Sequences(SubSeq(words, n + 2, Len(words)))

\* term_id = mapping[term_id] for every term_id of every sequence from
\* position pos on; the length words are left as they are
RECURSIVE RemapFrom(_, _, _)
RemapFrom(words, pos, mapping) ==
    IF pos > Len(words) THEN words
    ELSE LET n == words[pos]
             w == [k \in 1..Len(words) |->
                      IF k > pos /\ k <= pos + n THEN mapping[words[k] + 1]
                      ELSE words[k]]
         IN RemapFrom(w, pos + n + 1, mapping)

\* the element of the header is rewritten like a term id
RemapCollectionHeader(words, mapping) ==
    IF words = <<>> THEN words
    ELSE [RemapFrom(words, words[1] + 2, mapping) EXCEPT
             ![2] = IF @ + 1 \in DOMAIN mapping THEN mapping[@ + 1] ELSE 0]

\* for (doc_iter = ++coll.begin(); doc_iter != coll.end(); ++doc_iter):
\* the first sequence (the header) is skipped, every later one is rewritten
RemapCollection(words, mapping) ==
    IF words = <<>> THEN words
    ELSE RemapFrom(words, words[1] + 2, mapping)

\* ---------------------------------------------------------------- inputs
\* the records a source may yield (characters as codes: a 97, b 98, c 99,
\* A 65, - 45, space 32): distinct and repeated trecids, empty and non-empty
\* urls, terms shared between records, a repeated term, a term that
\* process_term turns into the empty string, empty content, an invalid record
RecordPool ==
    { [trecid |-> <<100>>, url |-> <<>>, valid |-> TRUE,
       content |-> <<98, 32, 97>>],
      [trecid |-> <<101>>, url |-> <<117>>, valid |-> TRUE,
       content |-> <<99, 32, 45, 32, 99, 32, 65>>],
      [trecid |-> <<102>>, url |-> <<118>>, valid |-> FALSE,
       content |-> <<98>>],
      [trecid |-> <<100>>, url |-> <<>>, valid |-> TRUE,
       content |-> <<>>] }

RecordSeqs == UNION { [1..n -> RecordPool] : n \in 0..MaxRecords }

\* a function with no argument (an empty map)
EmptyMap == [x \in {} |-> 0]

\* the four files of a batch and of the output, by suffix
Suffixes == {"", ".documents", ".urls", ".terms"}

\* batch_file(output_file, batch_number) + suffix, as a key of the file system
batch_file(batch_number, suffix) == <<batch_number, suffix>>

VARIABLES
    threads,         \* build's threads parameter
    batch_size,      \* build's batch_size parameter
    records,         \* what next_record yields, in order, before end of stream
    pc,              \* the driver's position in build / merge / remove_batches
    is_pos,          \* number of records pulled from the stream
    eos,             \* next_record has returned nullopt
    record_batch,    \* build's record_batch
    batch_number,    \* build's batch_number
    first_document,  \* build's first_document
    queue,           \* number of elements of the bounded queue
    tasks,           \* the tasks given to batch_group, by batch number
    bfs,             \* the batch files that exist, by batch_file name
    ofs,             \* the output files that exist, by suffix
    batch,           \* the loop variable of the current loop over batches
    terms,           \* collect_terms' terms vector / merge's terms
    spans,           \* collect_terms' stack of spans, the top is last
    s,               \* push_span's parameter s
    term_mapping,    \* merge's term_mapping
    overtaken,       \* history: a task has completed before a task of a lower batch number
    cur              \* per task inside a record of run's loop: the raw terms left and term_ids

vars == <<threads, batch_size, records, pc, is_pos, eos, record_batch,
          batch_number, first_document, queue, tasks, bfs, ofs, batch,
          terms, spans, s, term_mapping, overtaken, cur>>

input_vars == <<threads, batch_size, records>>
driver_vars == <<is_pos, eos, record_batch, batch_number, first_document>>
merge_vars == <<batch, terms, spans, s, term_mapping>>
history_vars == <<overtaken>>
term_vars == <<cur>>

NoSpan == [first |-> 0, last |-> 0, lvl |-> 0]

Init ==
    /\ threads \in 1..MaxThreads
    /\ batch_size \in 0..MaxBatchSize
    /\ records \in RecordSeqs
    /\ pc = "start"
    /\ is_pos = 0
    /\ eos = FALSE
    /\ record_batch = <<>>
    /\ batch_number = 0
    /\ first_document = 0
    /\ queue = 0
    /\ tasks = EmptyMap
    /\ bfs = EmptyMap
    /\ ofs = EmptyMap
    /\ batch = 0
    /\ terms = <<>>
    /\ spans = <<>>
    /\ s = NoSpan
    /\ term_mapping = EmptyMap
    /\ overtaken = FALSE
    /\ cur = EmptyMap

\* ------------------------------------------------------------------ build
\* a queue of one permit per thread too many
CapacityLoose == threads * 2

\* queue.set_capacity((threads - 1) * 2)
Capacity == (threads - 1) * 2

\* only no thread at all is refused
NoThread == threads < 1

\* if (threads < 2)
TooFewThreads == threads < 2

\* if (threads < 2) { ...; std::abort(); }
Abort ==
    /\ pc = "start"
    /\ TooFewThreads
    /\ pc' = "aborted"
    /\ UNCHANGED <<history_vars, term_vars, input_vars, driver_vars, queue, tasks, bfs, ofs, merge_vars>>

\* the declarations before the loop
Begin ==
    /\ pc = "start"
    /\ ~TooFewThreads
    /\ pc' = "read"
    /\ UNCHANGED <<history_vars, term_vars, input_vars, driver_vars, queue, tasks, bfs, ofs, merge_vars>>

\* record_batch.push_back(std::move(*record))
push_back(v, record) == Append(v, record)

\* a batch is dispatched one record late
BatchFullLate(v) == Len(v) = batch_size + 1

\* if (record_batch.size() == batch_size)
BatchFull(v) == Len(v) = batch_size

\* next_record(is) returns a record: it is appended to record_batch, and a
\* batch of batch_size records is dispatched
ReadRecord ==
    /\ pc = "read"
    /\ is_pos < Len(records)
    /\ is_pos' = is_pos + 1
    /\ record_batch' = push_back(record_batch, records[is_pos + 1])
    /\ pc' = IF BatchFull(record_batch') THEN "push" ELSE "read"
    /\ UNCHANGED <<history_vars, term_vars, input_vars, eos, batch_number, first_document, queue, tasks,
                   bfs, ofs, merge_vars>>

\* next_record(is) returns nullopt: the last batch is dispatched
EndOfStream ==
    /\ pc = "read"
    /\ is_pos = Len(records)
    /\ eos' = TRUE
    /\ pc' = "push"
    /\ UNCHANGED <<history_vars, term_vars, input_vars, is_pos, record_batch, batch_number, first_document,
                   queue, tasks, bfs, ofs, merge_vars>>

\* queue.push(0): blocks while the queue holds Capacity elements
Push ==
    /\ pc = "push"
    /\ queue < Capacity
    /\ queue' = queue + 1
    /\ pc' = "run"
    /\ UNCHANGED <<history_vars, term_vars, input_vars, driver_vars, tasks, bfs, ofs, merge_vars>>

\* Batch_Process bp{batch_number, std::move(record_batch), first_document, output_file}
Batch_Process ==
    [st |-> "spawned", batch_number |-> batch_number, records |-> record_batch,
     first_document |-> first_document, done |-> 0, map |-> EmptyMap]

\* first_document += batch_size for the last batch too
NextFirstDocumentFull == first_document + batch_size

\* first_document += last_batch_size (last batch) / first_document += batch_size
NextFirstDocument ==
    IF eos THEN first_document + Len(record_batch) ELSE first_document + batch_size

\* batch_group.run(...); ++batch_number; first_document += ...; then break
\* (last batch) or record_batch = std::vector<Document_Record>()
Run ==
    /\ pc = "run"
    /\ tasks' = (batch_number :> Batch_Process) @@ tasks
    /\ batch_number' = batch_number + 1
    /\ first_document' = NextFirstDocument
    /\ record_batch' = <<>>
    /\ pc' = IF eos THEN "wait" ELSE "read"
    /\ UNCHANGED <<history_vars, term_vars, input_vars, is_pos, eos, queue, bfs, ofs, merge_vars>>

\* ---------------------------------------------------------- batch processor
\* the tasks whose run(bp) is executing
Running == {b \in DOMAIN tasks : tasks[b].st = "running"}

\* the id is taken after the term has been inserted into map
process_after_insert(acc, raw) ==
    LET term == process_term(raw)
    IN IF term \in DOMAIN acc.map
       THEN [acc EXCEPT !.term_ids = Append(@, acc.map[term])]
       ELSE LET id == Cardinality(DOMAIN acc.map) + 1
            IN [map |-> (term :> id) @@ acc.map,
                term_os |-> WriteLine(acc.term_os, term),
                term_ids |-> Append(acc.term_ids, id)]

\* the process lambda of run: the term is normalised, looked up in map or
\* given the next id (and written to term_os), and its id is appended
\* acc = [map, term_os, term_ids]
process(acc, raw) ==
    LET term == process_term(raw)
    IN IF term \in DOMAIN acc.map
       THEN [acc EXCEPT !.term_ids = Append(@, acc.map[term])]
       ELSE LET id == Cardinality(DOMAIN acc.map)
            IN [map |-> (term :> id) @@ acc.map,
                term_os |-> WriteLine(acc.term_os, term),
                term_ids |-> Append(acc.term_ids, id)]

\* process_content(content, process): process is called on every raw term
RECURSIVE process_content(_, _)
process_content(acc, raws) ==
    IF raws = <<>> THEN acc
    ELSE process_content(process(acc, Head(raws)), Tail(raws))

\* a task starts run(bp): the four batch files are created and the
\* header is written
StartRun(b) ==
    /\ b \in DOMAIN tasks
    /\ tasks[b].st = "spawned"
    /\ tasks' = [tasks EXCEPT ![b].st = "running"]
    /\ bfs' = (batch_file(b, "") :> write_header(<<>>, Len(tasks[b].records)))
              @@ (batch_file(b, ".documents") :> <<>>)
              @@ (batch_file(b, ".urls") :> <<>>)
              @@ (batch_file(b, ".terms") :> <<>>)
              @@ bfs
    /\ UNCHANGED <<history_vars, term_vars, input_vars, pc, driver_vars, queue, ofs, merge_vars>>

\* one iteration of run's loop over bp.records
RunRecord(b) ==
    /\ b \in DOMAIN tasks
    /\ tasks[b].st = "running"
    /\ tasks[b].done < Len(tasks[b].records)
    /\ LET record == tasks[b].records[tasks[b].done + 1]
           acc == process_content([map |-> tasks[b].map,
                                   term_os |-> bfs[batch_file(b, ".terms")],
                                   term_ids |-> <<>>],
                                  RawTerms(record.content))
       IN /\ bfs' = [bfs EXCEPT
                       ![batch_file(b, ".documents")] = WriteLine(@, record.trecid),
                       ![batch_file(b, ".urls")] = WriteLine(@, record.url),
                       ![batch_file(b, ".terms")] = acc.term_os,
                       ![batch_file(b, "")] = write_document(@, acc.term_ids)]
          /\ tasks' = [tasks EXCEPT ![b].done = @ + 1, ![b].map = acc.map]
    /\ UNCHANGED <<history_vars, term_vars, input_vars, pc, driver_vars, queue, ofs, merge_vars>>

\* run's loop over bp.records, term by term.
\* the head of an iteration: the trecid and the url are written, term_ids is
\* empty and process_content has the raw terms of the content before it
RunBeginRecord(b) ==
    /\ b \in DOMAIN tasks
    /\ tasks[b].st = "running"
    /\ tasks[b].done < Len(tasks[b].records)
    /\ b \notin DOMAIN cur
    /\ LET record == tasks[b].records[tasks[b].done + 1]
       IN /\ bfs' = [bfs EXCEPT
                       ![batch_file(b, ".documents")] = WriteLine(@, record.trecid),
                       ![batch_file(b, ".urls")] = WriteLine(@, record.url)]
          /\ cur' = (b :> [raws |-> RawTerms(record.content), term_ids |-> <<>>])
                     @@ cur
    /\ UNCHANGED <<history_vars, input_vars, pc, driver_vars, queue, tasks, ofs, merge_vars>>

\* process_content calls process on the next raw term
RunTerm(b) ==
    /\ b \in DOMAIN tasks
    /\ tasks[b].st = "running"
    /\ b \in DOMAIN cur
    /\ cur[b].raws # <<>>
    /\ LET acc == process([map |-> tasks[b].map,
                           term_os |-> bfs[batch_file(b, ".terms")],
                           term_ids |-> cur[b].term_ids],
                          Head(cur[b].raws))
       IN /\ bfs' = [bfs EXCEPT ![batch_file(b, ".terms")] = acc.term_os]
          /\ tasks' = [tasks EXCEPT ![b].map = acc.map]
          /\ cur' = [cur EXCEPT ![b].raws = Tail(@), ![b].term_ids = acc.term_ids]
    /\ UNCHANGED <<history_vars, input_vars, pc, driver_vars, queue, ofs, merge_vars>>

\* process_content has returned: the document is written
RunEndRecord(b) ==
    /\ b \in DOMAIN tasks
    /\ tasks[b].st = "running"
    /\ b \in DOMAIN cur
    /\ cur[b].raws = <<>>
    /\ bfs' = [bfs EXCEPT ![batch_file(b, "")] = write_document(@, cur[b].term_ids)]
    /\ tasks' = [tasks EXCEPT ![b].done = @ + 1]
    /\ cur' = [x \in DOMAIN cur \ {b} |-> cur[x]]
    /\ UNCHANGED <<history_vars, input_vars, pc, driver_vars, queue, ofs, merge_vars>>

\* a pop that removes nothing
try_pop_none(q) == q

\* queue.try_pop(x): an element is removed when there is one
try_pop(q) == IF q > 0 THEN q - 1 ELSE q

\* run(bp) returns and the task pops one element of the queue
TaskComplete(b) ==
    /\ b \in DOMAIN tasks
    /\ tasks[b].st = "running"
    /\ tasks[b].done = Len(tasks[b].records)
    /\ tasks' = [tasks EXCEPT ![b].st = "done"]
    /\ queue' = try_pop(queue)
    /\ overtaken' = (overtaken \/ \E a \in DOMAIN tasks : a < b /\ tasks[a].st # "done")
    /\ UNCHANGED <<term_vars, input_vars, pc, driver_vars, bfs, ofs, merge_vars>>

\* a wait that returns when every task has been started
WaitStarted == \A b \in DOMAIN tasks : tasks[b].st # "spawned"

\* batch_group.wait() returns: every task of the group has completed
WaitDone == \A b \in DOMAIN tasks : tasks[b].st = "done"

Wait ==
    /\ pc = "wait"
    /\ WaitDone
    /\ pc' = "merge"
    /\ UNCHANGED <<history_vars, term_vars, input_vars, driver_vars, queue, tasks, bfs, ofs, merge_vars>>

\* ------------------------------------------------------------------ merge
\* std::ifstream is(name): the content of a file, nothing when it is missing
Contents(name) == IF name \in DOMAIN bfs THEN bfs[name] ELSE <<>>

\* an output stream: the bytes written and its failbit
NewStream == [data |-> <<>>, fail |-> FALSE]

\* os << is.rdbuf(): the rest of the input is appended; when no character is
\* inserted the failbit of os is set, and a failed stream writes nothing
InsertRdbuf(os, rest) ==
    IF os.fail THEN os
    ELSE IF rest = <<>> THEN [os EXCEPT !.fail = TRUE]
    ELSE [os EXCEPT !.data = @ \o rest]

\* the batches copied from the last to the first
RECURSIVE CopyBatchesReversed(_, _, _, _)
CopyBatchesReversed(os, suffix, b, batch_count) ==
    IF b >= batch_count THEN os
    ELSE CopyBatchesReversed(InsertRdbuf(os, Contents(batch_file(batch_count - 1, suffix))),
                             suffix, b, batch_count - 1)

\* for (auto batch : iota(0, batch_count)) os << ifstream(batch_file + suffix).rdbuf()
RECURSIVE CopyBatches(_, _, _, _)
CopyBatches(os, suffix, b, batch_count) ==
    IF b >= batch_count THEN os
    ELSE CopyBatches(InsertRdbuf(os, Contents(batch_file(b, suffix))),
                     suffix, b + 1, batch_count)

\* the output streams are opened, then "Merging titles"
MergeTitles ==
    /\ pc = "merge"
    /\ ofs' = (".documents" :> CopyBatches(NewStream, ".documents", 0, batch_number).data)
              @@ (".urls" :> <<>>) @@ (".terms" :> <<>>) @@ ofs
    /\ pc' = "merge_urls"
    /\ UNCHANGED <<history_vars, term_vars, input_vars, driver_vars, queue, tasks, bfs, merge_vars>>

\* "Merging URLs"
MergeUrls ==
    /\ pc = "merge_urls"
    /\ ofs' = [ofs EXCEPT ![".urls"] = CopyBatches(NewStream, ".urls", 0, batch_number).data]
    /\ batch' = 0
    /\ pc' = "collect"
    /\ UNCHANGED <<history_vars, term_vars, input_vars, driver_vars, queue, tasks, bfs, terms, spans, s,
                   term_mapping>>

\* ---------------------------------------------------------- collect_terms
\* the terms vector after merge_spans(lhs, rhs): the two ranges are merged
\* in place and the duplicates of the merged range are erased
merge_spans_terms(v, lhs, rhs) ==
    SubSeq(v, 1, lhs.first)
    \o unique(inplace_merge(SubSeq(v, lhs.first + 1, lhs.last),
                            SubSeq(v, lhs.last + 1, rhs.last)))
    \o SubSeq(v, rhs.last + 1, Len(v))

\* the span ends where rhs ended before the duplicates were erased
merge_spans_stale(v, lhs, rhs) ==
    [first |-> lhs.first, last |-> rhs.last, lvl |-> lhs.lvl + 1]

\* the merged span keeps the level of lhs
merge_spans_flat(v, lhs, rhs) ==
    [first |-> lhs.first, last |-> Len(merge_spans_terms(v, lhs, rhs)),
     lvl |-> lhs.lvl]

\* the span merge_spans(lhs, rhs) returns
merge_spans(v, lhs, rhs) ==
    [first |-> lhs.first, last |-> Len(merge_spans_terms(v, lhs, rhs)),
     lvl |-> lhs.lvl + 1]

\* Expects(lhs.last == rhs.first)
Expects(lhs, rhs) == lhs.last = rhs.first

\* spans.top()
top(stack) == stack[Len(stack)]

\* spans.pop()
pop(stack) == SubSeq(stack, 1, Len(stack) - 1)

\* one batch's .terms file is read at the end of terms and the new range is sorted
CollectRead ==
    /\ pc = "collect"
    /\ batch < batch_number
    /\ LET mid == Len(terms)
           read == ReadLines(Contents(batch_file(batch, ".terms")))
       IN /\ terms' = terms \o sort(read)
          /\ s' = [first |-> mid, last |-> Len(terms'), lvl |-> 0]
    /\ pc' = "push_span"
    /\ UNCHANGED <<history_vars, term_vars, input_vars, driver_vars, queue, tasks, bfs, ofs, batch, spans,
                   term_mapping>>

\* push_span: while the top span has the level of s, s = merge_spans(top, s)
PushSpanMerge ==
    /\ pc = "push_span"
    /\ spans # <<>> /\ top(spans).lvl = s.lvl
    /\ IF Expects(top(spans), s)
       THEN /\ terms' = merge_spans_terms(terms, top(spans), s)
            /\ s' = merge_spans(terms, top(spans), s)
            /\ spans' = pop(spans)
            /\ pc' = pc
       ELSE /\ pc' = "aborted"
            /\ UNCHANGED <<terms, s, spans>>
    /\ UNCHANGED <<history_vars, term_vars, input_vars, driver_vars, queue, tasks, bfs, ofs, batch,
                   term_mapping>>

\* push_span: spans.push(s), and the loop over the batches goes on
PushSpanPush ==
    /\ pc = "push_span"
    /\ ~(spans # <<>> /\ top(spans).lvl = s.lvl)
    /\ spans' = Append(spans, s)
    /\ batch' = batch + 1
    /\ pc' = "collect"
    /\ UNCHANGED <<history_vars, term_vars, input_vars, driver_vars, queue, tasks, bfs, ofs, terms, s,
                   term_mapping>>

\* the loop over the batches ends
CollectEnd ==
    /\ pc = "collect"
    /\ batch = batch_number
    /\ pc' = "drain"
    /\ UNCHANGED <<history_vars, term_vars, input_vars, driver_vars, queue, tasks, bfs, ofs, merge_vars>>

\* while (spans.size() > 1): the two top spans are popped and merged
DrainMerge ==
    /\ pc = "drain"
    /\ Len(spans) > 1
    /\ LET rhs == top(spans)
           lhs == top(pop(spans))
       IN IF Expects(lhs, rhs)
          THEN /\ terms' = merge_spans_terms(terms, lhs, rhs)
               /\ spans' = Append(pop(pop(spans)), merge_spans(terms, lhs, rhs))
               /\ pc' = pc
          ELSE /\ pc' = "aborted"
               /\ UNCHANGED <<terms, spans>>
    /\ UNCHANGED <<history_vars, term_vars, input_vars, driver_vars, queue, tasks, bfs, ofs, batch, s,
                   term_mapping>>

\* reverse_mapping: emplace(term, term_id) for term_id = 0, 1, ...; emplace
\* keeps the first id of a term that is already a key
RECURSIVE ReverseFrom(_, _, _)
ReverseFrom(v, term_id, mapping) ==
    IF term_id >= Len(v) THEN mapping
    ELSE ReverseFrom(v, term_id + 1,
                     IF v[term_id + 1] \in DOMAIN mapping THEN mapping
                     ELSE (v[term_id + 1] :> term_id) @@ mapping)

\* term ids counted from 1
reverse_mapping_from_one(v) ==
    [t \in {v[i] : i \in 1..Len(v)} |->
        CHOOSE i \in 1..Len(v) : v[i] = t /\ \A j \in 1..(i - 1) : v[j] # t]

reverse_mapping(v) == ReverseFrom(v, 0, EmptyMap)

\* collect_terms returns; "Writing terms" and "Mapping terms"
WriteTerms ==
    /\ pc = "drain"
    /\ ~(Len(spans) > 1)
    /\ ofs' = [ofs EXCEPT ![".terms"] = WriteLines(<<>>, terms)]
    /\ term_mapping' = reverse_mapping(terms)
    /\ batch' = 0
    /\ pc' = "remap"
    /\ UNCHANGED <<history_vars, term_vars, input_vars, driver_vars, queue, tasks, bfs, terms, spans, s>>

\* term_mapping[bterm]: the id of a key, and 0 for a string that is no key
Lookup(mapping, bterm) == IF bterm \in DOMAIN mapping THEN mapping[bterm] ELSE 0

\* the local ids kept as they are
BatchMappingLocal(batch_terms) == [j \in 1..Len(batch_terms) |-> j - 1]

\* std::transform(batch_terms, mapping, term_mapping[bterm])
BatchMapping(batch_terms) ==
    [j \in 1..Len(batch_terms) |-> Lookup(term_mapping, batch_terms[j])]

\* "Remapping IDs": one iteration of the loop over the batches
Remap ==
    /\ pc = "remap"
    /\ batch < batch_number
    /\ LET batch_terms == read_string_vector(Contents(batch_file(batch, ".terms")))
       IN bfs' = [bfs EXCEPT ![batch_file(batch, "")] =
                     RemapCollection(@, BatchMapping(batch_terms))]
    /\ batch' = batch + 1
    /\ UNCHANGED <<history_vars, term_vars, input_vars, pc, driver_vars, queue, tasks, ofs, terms, spans, s,
                   term_mapping>>

\* the output index: the header, then every batch file without its first 8 bytes
ConcatBatches ==
    LET RECURSIVE Cat(_, _)
        Cat(os, b) ==
            IF b >= batch_number THEN os
            ELSE Cat(InsertRdbuf(os, ignore8(Contents(batch_file(b, "")))), b + 1)
    IN Cat([NewStream EXCEPT !.data = write_header(<<>>, first_document)], 0).data

\* term_mapping.clear(); "Concatenating batches"; "Success."
Concat ==
    /\ pc = "remap"
    /\ batch = batch_number
    /\ term_mapping' = EmptyMap
    /\ ofs' = ("" :> ConcatBatches) @@ ofs
    /\ batch' = 0
    /\ pc' = "remove"
    /\ UNCHANGED <<history_vars, term_vars, input_vars, driver_vars, queue, tasks, bfs, terms, spans, s>>

\* -------------------------------------------------------- remove_batches
\* the .urls file is left behind
RemovedThree(b) == {batch_file(b, x) : x \in {".documents", ".terms", ""}}

\* the files one iteration of remove_batches removes
Removed(b) == {batch_file(b, x) : x \in {".documents", ".terms", ".urls", ""}}

RemoveBatch ==
    /\ pc = "remove"
    /\ batch < batch_number
    /\ bfs' = [f \in DOMAIN bfs \ Removed(batch) |-> bfs[f]]
    /\ batch' = batch + 1
    /\ UNCHANGED <<history_vars, term_vars, input_vars, pc, driver_vars, queue, tasks, ofs, terms, spans, s,
                   term_mapping>>

\* remove_batches and build return
Return ==
    /\ pc = "remove"
    /\ batch = batch_number
    /\ pc' = "done"
    /\ UNCHANGED <<history_vars, term_vars, input_vars, driver_vars, queue, tasks, bfs, ofs, merge_vars>>

Next ==
    \/ Abort
    \/ Begin
    \/ ReadRecord
    \/ EndOfStream
    \/ Push
    \/ Run
    \/ \E b \in DOMAIN tasks : StartRun(b)
    \/ \E b \in DOMAIN tasks : RunRecord(b)
    \/ \E b \in DOMAIN tasks : TaskComplete(b)
    \/ Wait
    \/ MergeTitles
    \/ MergeUrls
    \/ CollectRead
    \/ PushSpanMerge
    \/ PushSpanPush
    \/ CollectEnd
    \/ DrainMerge
    \/ WriteTerms
    \/ Remap
    \/ Concat
    \/ RemoveBatch
    \/ Return

Spec == Init /\ [][Next]_vars

\* build with threads = 2 (up to two batches in flight, their run calls
\* interleaved) up to the return of batch_group.wait(), run taken term by term
InitRun == Init /\ threads = 2

NextRun ==
    \/ Begin
    \/ ReadRecord
    \/ EndOfStream
    \/ Push
    \/ Run
    \/ \E b \in DOMAIN tasks : StartRun(b)
    \/ \E b \in DOMAIN tasks : RunBeginRecord(b)
    \/ \E b \in DOMAIN tasks : RunTerm(b)
    \/ \E b \in DOMAIN tasks : RunEndRecord(b)
    \/ \E b \in DOMAIN tasks : TaskComplete(b)
    \/ Wait

SpecRun == InitRun /\ [][NextRun]_vars

\* the steps of the thread that calls build
Driver ==
    \/ Abort
    \/ Begin
    \/ ReadRecord
    \/ EndOfStream
    \/ Push
    \/ Run
    \/ Wait
    \/ MergeTitles
    \/ MergeUrls
    \/ CollectRead
    \/ PushSpanMerge
    \/ PushSpanPush
    \/ CollectEnd
    \/ DrainMerge
    \/ WriteTerms
    \/ Remap
    \/ Concat
    \/ RemoveBatch
    \/ Return

\* the steps of the task of batch b
Worker(b) == StartRun(b) \/ RunRecord(b) \/ TaskComplete(b)

\* the calling thread keeps running while it is not blocked, and every task
\* given to batch_group keeps running
Fairness ==
    /\ WF_vars(Driver)
    /\ \A b \in 0..MaxRecords : WF_vars(Worker(b))

\* the record of a source that yields the same record every time
LiveRecord ==
    [trecid |-> <<100>>, url |-> <<>>, valid |-> TRUE, content |-> <<98, 32, 97>>]

\* build with at most two batches in flight and a source whose records are all
\* the same: how many records there are decides the steps of build, what
\* they hold does not
InitLive ==
    /\ Init
    /\ threads <= 2
    /\ \A i \in 1..Len(records) : records[i] = LiveRecord

LiveSpec == InitLive /\ [][Next]_vars /\ Fairness

\* ================================================================ properties
\* the batches dispatched and not yet completed
InFlight == {b \in DOMAIN tasks : tasks[b].st # "done"}

\* the elements of a sequence
Range(v) == {v[i] : i \in 1..Len(v)}

\* the normalised terms of a record's content, in order
NormTerms(content) ==
    [j \in 1..Len(RawTerms(content)) |-> process_term(RawTerms(content)[j])]

\* the documents of a binary index: its sequences after the header
Documents(words) == Tail(Sequences(words))

\* the term ids of a document are positions of the term list g
ValidIds(doc, g) == \A j \in 1..Len(doc) : 0 <= doc[j] /\ doc[j] < Len(g)

\* the terms a document's term ids stand for in the term list g
Decode(doc, g) == [j \in 1..Len(doc) |-> g[doc[j] + 1]]

\* the positions of build after batch_group.wait() and before its return
MergePcs == {"merge", "merge_urls", "collect", "push_span", "drain", "remap", "remove"}

\* C1: with threads >= 2 at most 2*(threads-1) batches are dispatched and not
\* completed; each of them holds a permit of the queue; and when the driver
\* schedules a batch it holds a permit for it that no batch in flight holds,
\* so fewer than 2*(threads-1) batches are in flight at that point.
C1_InFlightBounded ==
    threads >= 2 =>
        /\ Cardinality(InFlight) <= 2 * (threads - 1)
        /\ Cardinality(InFlight) <= queue
        /\ queue <= 2 * (threads - 1)
        /\ pc = "run" => /\ Cardinality(InFlight) < queue
                         /\ Cardinality(InFlight) < 2 * (threads - 1)

\* the driver waits for a permit while 2*(threads-1) batches are in flight
C1_Witness ==
    /\ threads >= 2
    /\ pc = "push"
    /\ Cardinality(InFlight) = 2 * (threads - 1)

\* C2: when build has finished, for every k the k-th record pulled from the
\* source is document k of the output index (its term ids stand for the
\* record's normalised terms), and its trecid and url are line k of the
\* .documents and .urls files, whatever the order the workers ran in.
C2_OrderPreserved ==
    pc = "done" =>
        LET docs == Documents(ofs[""])
            g == ReadLines(ofs[".terms"])
            titles == ReadLines(ofs[".documents"])
            urls == ReadLines(ofs[".urls"])
        IN \A k \in 1..Len(records) :
              /\ k <= Len(docs) /\ k <= Len(titles) /\ k <= Len(urls)
              /\ titles[k] = records[k].trecid
              /\ urls[k] = records[k].url
              /\ ValidIds(docs[k], g)
              /\ Decode(docs[k], g) = NormTerms(records[k].content)

\* build has finished on three records in several batches, and a worker
\* completed a batch before a batch of a lower number was complete
C2_Witness ==
    /\ pc = "done"
    /\ overtaken
    /\ Len(records) = 3
    /\ batch_number >= 3
    /\ records[1].trecid # records[2].trecid

\* C3: while the ids are remapped, the remap table R of every batch sends each
\* local id j to the position of the batch's term L[j] in the global term list
\* G (G[R[j]] = L[j]), and every batch file already remapped decodes through G
\* to the normalised terms of the batch's records, in order.
C3_RoundTrip ==
    pc = "remap" =>
        LET g == ReadLines(ofs[".terms"])
        IN \A b \in 0..(batch_number - 1) :
              LET l == read_string_vector(Contents(batch_file(b, ".terms")))
                  r == BatchMapping(l)
                  docs == Documents(Contents(batch_file(b, "")))
              IN /\ \A j \in 1..Len(l) : r[j] >= 0 /\ r[j] < Len(g) /\ g[r[j] + 1] = l[j]
                 /\ b < batch =>
                      /\ Len(docs) = Len(tasks[b].records)
                      /\ \A k \in 1..Len(docs) :
                            /\ ValidIds(docs[k], g)
                            /\ Decode(docs[k], g) = NormTerms(tasks[b].records[k].content)

\* every batch has been remapped, and in some batch the remap table is not
\* the identity
C3_Witness ==
    /\ pc = "remap"
    /\ batch = batch_number
    /\ batch_number >= 2
    /\ \E b \in 0..(batch_number - 1) :
          LET r == BatchMapping(read_string_vector(Contents(batch_file(b, ".terms"))))
          IN \E j \in 1..Len(r) : r[j] # j - 1

\* a vector of strings is strictly increasing
StrictlyIncreasing(v) == \A i \in 1..(Len(v) - 1) : StrLess(v[i], v[i + 1])

\* the terms of the .terms files of all batches
BatchTerms ==
    UNION {Range(ReadLines(Contents(batch_file(b, ".terms")))) : b \in 0..(batch_number - 1)}

\* C4: the term list collect_terms returns is strictly increasing (so it has
\* no duplicates) and holds exactly the terms of the batches' .terms files,
\* and the lines of the output .terms file are that list.
C4_TermsSortedUnique ==
    /\ (pc = "drain" /\ Len(spans) <= 1) \/ pc = "remap" =>
          /\ StrictlyIncreasing(terms)
          /\ Range(terms) = BatchTerms
    /\ pc \in {"remap", "remove", "done"} =>
          /\ ReadLines(ofs[".terms"]) = terms
          /\ StrictlyIncreasing(ReadLines(ofs[".terms"]))

\* collect_terms returns a list of at least three terms made from three or
\* more batches, two of which share a term
C4_Witness ==
    /\ pc = "drain" /\ Len(spans) <= 1
    /\ batch_number >= 3
    /\ Len(terms) >= 3
    /\ \E a, b \in 0..(batch_number - 1) :
          /\ a # b
          /\ Range(ReadLines(Contents(batch_file(a, ".terms"))))
               \cap Range(ReadLines(Contents(batch_file(b, ".terms")))) # {}

\* C5: once the remap step has processed batch i every term id of that
\* batch's index file is a position of the global term list, and when build
\* has finished every term id t of the output index satisfies
\* 0 <= t < number of lines of the output .terms file.
C5_ValidTermIds ==
    /\ pc = "remap" =>
          \A i \in 0..(batch - 1) :
              \A k \in 1..Len(Documents(Contents(batch_file(i, "")))) :
                  ValidIds(Documents(Contents(batch_file(i, "")))[k],
                           ReadLines(ofs[".terms"]))
    /\ pc = "done" =>
          \A k \in 1..Len(Documents(ofs[""])) :
              ValidIds(Documents(ofs[""])[k], ReadLines(ofs[".terms"]))

\* build has finished and the output index uses the last term of the list
C5_Witness ==
    /\ pc = "done"
    /\ batch_number >= 2
    /\ \E k \in 1..Len(Documents(ofs[""])) :
          \E j \in 1..Len(Documents(ofs[""])[k]) :
              Documents(ofs[""])[k][j] = Len(ReadLines(ofs[".terms"])) - 1

\* the records of the source that are valid, in order
ValidRecords == SelectSeq(records, LAMBDA r : r.valid)

\* C6 (as claimed): a record with valid = false is skipped by the driver: when
\* build has finished the header's doc_count is the number of valid records
\* and the .documents and .urls files hold the lines of the valid records only.
C6_InvalidSkipped ==
    pc = "done" =>
        /\ ofs[""][2] = Len(ValidRecords)
        /\ ReadLines(ofs[".documents"]) = [k \in 1..Len(ValidRecords) |-> ValidRecords[k].trecid]
        /\ ReadLines(ofs[".urls"]) = [k \in 1..Len(ValidRecords) |-> ValidRecords[k].url]

\* the documents of the batch files 0..n-1, in batch order, headers removed
RECURSIVE BatchDocuments(_)
BatchDocuments(n) ==
    IF n = 0 THEN <<>>
    ELSE BatchDocuments(n - 1) \o Documents(Contents(batch_file(n - 1, "")))

\* C7: the output index is one header carrying the document count followed
\* by the documents of batches 0..N-1 in batch order, each batch's own header
\* removed; the header's count is the number of documents that follow it and
\* the number of lines of the .documents and of the .urls file.
C7_OutputLayout ==
    /\ pc = "remove" /\ batch = 0 =>
          /\ Sequences(ofs[""]) = <<<<first_document>>>> \o BatchDocuments(batch_number)
          /\ \A b \in 0..(batch_number - 1) :
                Sequences(Contents(batch_file(b, "")))[1] = <<Len(tasks[b].records)>>
    /\ pc \in {"remove", "done"} =>
          /\ SubSeq(ofs[""], 1, 2) = <<1, Len(Documents(ofs[""]))>>
          /\ Len(Documents(ofs[""])) = Len(ReadLines(ofs[".documents"]))
          /\ Len(Documents(ofs[""])) = Len(ReadLines(ofs[".urls"]))

\* the batches have been concatenated: a full batch and a last batch that
\* is not full
C7_Witness ==
    /\ pc = "remove" /\ batch = 0
    /\ batch_number = 2
    /\ batch_size = 2
    /\ Len(tasks[1].records) = 1
    /\ Len(Documents(ofs[""])) = 3

\* C8: when build has completed none of the four files of any dispatched
\* batch exists, and a batch file is removed only by remove_batches, that is
\* after merge (copying, collecting, remapping, concatenating) has returned.
C8_BatchFilesRemoved ==
    /\ [](pc = "done" =>
            \A n \in 0..(batch_number - 1) : \A x \in Suffixes :
                batch_file(n, x) \notin DOMAIN bfs)
    /\ [][(\E f \in DOMAIN bfs : f \notin DOMAIN bfs') => pc = "remove" /\ pc' = "remove"]_vars

\* build has completed after dispatching several batches whose files existed
C8_Witness ==
    /\ pc = "done"
    /\ batch_number >= 3
    /\ DOMAIN tasks = 0..(batch_number - 1)
    /\ bfs = EmptyMap

\* the strings of a set in increasing order
RECURSIVE Ascending(_)
Ascending(set) ==
    IF set = {} THEN <<>>
    ELSE LET m == CHOOSE x \in set : \A y \in set \ {x} : StrLess(x, y)
         IN <<m>> \o Ascending(set \ {m})

\* the four output files as a function of the record sequence alone: the
\* term list is the increasing list of all normalised terms, document k holds
\* the positions of record k's terms in it, line k is record k's trecid / url
ExpectedTerms == Ascending(UNION {Range(NormTerms(records[k].content)) : k \in 1..Len(records)})

PositionIn(g, term) == (CHOOSE i \in 1..Len(g) : g[i] = term) - 1

RECURSIVE ExpectedDocuments(_)
ExpectedDocuments(n) ==
    IF n = 0 THEN <<>>
    ELSE LET nt == NormTerms(records[n].content)
         IN ExpectedDocuments(n - 1)
            \o <<Len(nt)>> \o [j \in 1..Len(nt) |-> PositionIn(ExpectedTerms, nt[j])]

RECURSIVE ExpectedTrecids(_)
ExpectedTrecids(n) ==
    IF n = 0 THEN <<>> ELSE ExpectedTrecids(n - 1) \o records[n].trecid \o <<NL>>

RECURSIVE ExpectedUrls(_)
ExpectedUrls(n) ==
    IF n = 0 THEN <<>> ELSE ExpectedUrls(n - 1) \o records[n].url \o <<NL>>

RECURSIVE ExpectedTermLines(_)
ExpectedTermLines(g) ==
    IF g = <<>> THEN <<>> ELSE Head(g) \o <<NL>> \o ExpectedTermLines(Tail(g))

\* C9: the four output files are a function of the record sequence alone:
\* they are the same for every threads >= 2, every batch_size and every
\* interleaving of the batch workers.
C9_Deterministic ==
    pc = "done" =>
        /\ DOMAIN ofs = Suffixes
        /\ ofs[""] = <<1, Len(records)>> \o ExpectedDocuments(Len(records))
        /\ ofs[".documents"] = ExpectedTrecids(Len(records))
        /\ ofs[".urls"] = ExpectedUrls(Len(records))
        /\ ofs[".terms"] = ExpectedTermLines(ExpectedTerms)

\* build has finished with three threads and batches of two records, the
\* workers having completed out of order
C9_Witness ==
    /\ pc = "done"
    /\ threads = 3
    /\ batch_size = 2
    /\ overtaken
    /\ Len(records) = 3
    /\ Len(ExpectedTerms) >= 3

\* C10: while merge (or remove_batches) runs, the source is exhausted, the
\* last batch has been dispatched, and every dispatched batch processor has
\* completed and given its permit back: no worker runs during the merge.
C10_MergeAfterWorkers ==
    pc \in MergePcs =>
        /\ eos /\ is_pos = Len(records) /\ record_batch = <<>>
        /\ DOMAIN tasks = 0..(batch_number - 1)
        /\ \A b \in DOMAIN tasks :
              tasks[b].st = "done" /\ tasks[b].done = Len(tasks[b].records)
        /\ InFlight = {}
        /\ queue = 0

\* the merge starts after several batches, the last of them completed first
C10_Witness ==
    /\ pc = "merge"
    /\ batch_number >= 2
    /\ overtaken


\* C11: build called with threads < 2 aborts before it pulls a record,
\* dispatches a batch or creates a file.
C11_AbortBeforeWork ==
    threads < 2 =>
        /\ pc \in {"start", "aborted"}
        /\ is_pos = 0 /\ record_batch = <<>> /\ ~eos
        /\ batch_number = 0 /\ tasks = EmptyMap /\ queue = 0
        /\ DOMAIN bfs = {} /\ DOMAIN ofs = {}

\* build has aborted on a source that holds records
C11_Witness ==
    /\ pc = "aborted"
    /\ threads < 2
    /\ Len(records) >= 1

\* C12 (as claimed): build called with batch_size <= 0 is rejected at
\* startup: it pulls no record and dispatches no batch.
C12_BatchSizeRejected ==
    batch_size <= 0 =>
        /\ pc # "done"
        /\ is_pos = 0
        /\ batch_number = 0 /\ tasks = EmptyMap


\* C13 (as claimed): at most threads - 1 batch processors execute at the
\* same time, and records are pulled from the source by the driver alone:
\* the stream position moves only in the driver's read step, one record at
\* a time.
C13_WorkersBounded ==
    /\ [](threads >= 2 => Cardinality(Running) <= threads - 1)
    /\ [][is_pos' # is_pos => pc = "read" /\ is_pos' = is_pos + 1]_vars


\* the normalised terms of a record's content that are not empty, in order
NonEmptyTerms(content) == SelectSeq(NormTerms(content), LAMBDA term : term # <<>>)

\* the positions of build in which no batch file has been remapped yet
LocalIdPcs == {"read", "push", "run", "wait", "merge", "merge_urls", "collect",
               "push_span", "drain"}

\* C14 (as claimed): a raw term the normaliser turns into the empty string is
\* dropped by the batch processor: the empty string has no local id and no
\* line in the batch's .terms file, and every document written holds the ids
\* of the record's non-empty normalised terms only.
C14_EmptyTermDropped ==
    pc \in LocalIdPcs =>
        \A b \in DOMAIN tasks :
            tasks[b].st \in {"running", "done"} =>
                /\ <<>> \notin DOMAIN tasks[b].map
                /\ <<>> \notin Range(ReadLines(Contents(batch_file(b, ".terms"))))
                /\ \A k \in 1..tasks[b].done :
                      Len(Documents(Contents(batch_file(b, "")))[k])
                          = Len(NonEmptyTerms(tasks[b].records[k].content))


\* the smaller of two numbers
Min(a, b) == IF a <= b THEN a ELSE b

\* the records of the batches 0..n-1, in batch order
RECURSIVE BatchRecords(_)
BatchRecords(n) ==
    IF n = 0 THEN <<>> ELSE BatchRecords(n - 1) \o tasks[n - 1].records

\* the positions of build after the last batch has been dispatched
AfterLoopPcs == {"wait", "done"} \cup MergePcs

\* C15: with batch_size B >= 1 the batches dispatched are numbered 0, 1, 2, ...
\* in order, batch k holds the records [k*B, min((k+1)*B, n)) of the source
\* with first_document = k*B, and once the loop has ended there are exactly
\* floor(n/B) + 1 batches that together hold every record once, the last one
\* dispatched at end of stream even when it is empty.
C15_Batches ==
    threads >= 2 /\ batch_size >= 1 =>
        /\ DOMAIN tasks = 0..(batch_number - 1)
        /\ \A k \in DOMAIN tasks :
              /\ tasks[k].batch_number = k
              /\ tasks[k].first_document = k * batch_size
              /\ tasks[k].records =
                    SubSeq(records, k * batch_size + 1,
                           Min((k + 1) * batch_size, Len(records)))
        /\ pc \in AfterLoopPcs =>
              /\ batch_number = (Len(records) \div batch_size) + 1
              /\ first_document = Len(records)
              /\ BatchRecords(batch_number) = records
              /\ eos

\* three records in batches of one: the fourth batch, dispatched at end of
\* stream, is empty
C15_Witness ==
    /\ pc = "wait"
    /\ threads >= 2
    /\ batch_size = 1
    /\ Len(records) = 3
    /\ batch_number = 4
    /\ tasks[3].records = <<>>


\* the spans of a stack, bottom to top, are contiguous, start at 0 and end at end
Contiguous(stack, end) ==
    IF stack = <<>> THEN end = 0
    ELSE /\ stack[1].first = 0
         /\ \A i \in 1..(Len(stack) - 1) : stack[i].last = stack[i + 1].first
         /\ \A i \in 1..Len(stack) : stack[i].first <= stack[i].last
         /\ stack[Len(stack)].last = end

\* the number of lines of the .terms files of the batches 0..n-1
RECURSIVE LinesRead(_)
LinesRead(n) ==
    IF n = 0 THEN 0
    ELSE LinesRead(n - 1) + Len(ReadLines(Contents(batch_file(n - 1, ".terms"))))

\* C16: whenever merge_spans is about to be called (in push_span and in the
\* final loop) lhs.last == rhs.first holds, so collect_terms never aborts; and
\* the spans of the stack (with the span push_span holds, while it holds one)
\* are contiguous, start at 0 and end at the size of the terms vector, also
\* after duplicates have been erased.
C16_SpansContiguous ==
    /\ threads >= 2 => pc # "aborted"
    /\ pc \in {"collect", "drain", "remap", "remove", "done"} =>
          Contiguous(spans, Len(terms))
    /\ pc = "push_span" =>
          /\ Contiguous(Append(spans, s), Len(terms))
          /\ spans # <<>> /\ top(spans).lvl = s.lvl => Expects(top(spans), s)
    /\ pc = "drain" /\ Len(spans) > 1 => Expects(top(pop(spans)), top(spans))

\* the final loop is about to merge two spans, the lower of which was made by
\* a merge that erased duplicates
C16_Witness ==
    /\ pc = "drain"
    /\ Len(spans) > 1
    /\ top(pop(spans)).lvl >= 1
    /\ Len(terms) < LinesRead(batch_number)

\* the number of 1-bits of the binary representation of k
RECURSIVE PopCount(_)
PopCount(k) == IF k = 0 THEN 0 ELSE (k % 2) + PopCount(k \div 2)

\* 2 to the power n
RECURSIVE Pow2(_)
Pow2(n) == IF n = 0 THEN 1 ELSE 2 * Pow2(n - 1)

\* the number of batches the spans of a stack stand for: 2^lvl each
RECURSIVE BatchesOf(_)
BatchesOf(stack) ==
    IF stack = <<>> THEN 0 ELSE Pow2(Head(stack).lvl) + BatchesOf(Tail(stack))

\* the levels of a stack strictly decrease from bottom to top
LevelsDecrease(stack) ==
    \A i \in 1..(Len(stack) - 1) : stack[i].lvl > stack[i + 1].lvl

\* C17: while the batches are consumed a span is merged only with a span of
\* its own level (the top is never of a lower level than the span pushed),
\* a span of level l stands for 2^l batches, and after k batches have been
\* pushed the levels strictly decrease from bottom to top and the stack
\* holds as many spans as k has 1-bits.
C17_LevelStack ==
    /\ pc = "collect" =>
          /\ LevelsDecrease(spans)
          /\ BatchesOf(spans) = batch
          /\ Len(spans) = PopCount(batch)
    /\ pc = "push_span" =>
          /\ LevelsDecrease(spans)
          /\ spans # <<>> => top(spans).lvl >= s.lvl
          /\ BatchesOf(spans) + Pow2(s.lvl) = batch + 1

\* three batches have been pushed: a span of level 1 under a span of level 0
C17_Witness ==
    /\ pc = "collect"
    /\ batch = 3
    /\ Len(spans) = 2
    /\ spans[1].lvl = 1 /\ spans[2].lvl = 0


\* the elements of a sequence in the order of their first occurrence
RECURSIVE FirstSeen(_, _)
FirstSeen(v, acc) ==
    IF v = <<>> THEN acc
    ELSE IF Head(v) \in Range(acc) THEN FirstSeen(Tail(v), acc)
    ELSE FirstSeen(Tail(v), Append(acc, Head(v)))

\* the normalised terms of the first n records of a batch, in order
RECURSIVE TermsOfRecords(_, _)
TermsOfRecords(recs, n) ==
    IF n = 0 THEN <<>>
    ELSE TermsOfRecords(recs, n - 1) \o NormTerms(recs[n].content)

\* the normalised terms of the record run(b) is inside that process has
\* been called on
TermsOfCurrent(b) ==
    IF b \in DOMAIN cur
    THEN LET all == NormTerms(tasks[b].records[tasks[b].done + 1].content)
         IN SubSeq(all, 1, Len(all) - Len(cur[b].raws))
    ELSE <<>>

\* the ids a dictionary gives to the terms of a sequence
IdsOf(map, v) == [j \in 1..Len(v) |-> map[v[j]]]

\* C18: at every point of run(b), between any two calls of process: the
\* lines of the batch's .terms file are the normalised terms processed so
\* far in the order of their first occurrence, each on one line; the term of
\* line j (counted from 0) has the local id j, so the ids are dense from 0;
\* and every id of a written document and of term_ids is the id of its term
\* and is smaller than the size of map.
C18_LocalIds ==
    \A b \in DOMAIN tasks :
        tasks[b].st \in {"running", "done"} =>
            LET L == ReadLines(Contents(batch_file(b, ".terms")))
                map == tasks[b].map
                docs == Documents(Contents(batch_file(b, "")))
                seen == TermsOfRecords(tasks[b].records, tasks[b].done)
                            \o TermsOfCurrent(b)
            IN /\ L = FirstSeen(seen, <<>>)
               /\ DOMAIN map = Range(L)
               /\ Cardinality(DOMAIN map) = Len(L)
               /\ \A j \in 1..Len(L) : map[L[j]] = j - 1
               /\ Len(docs) = tasks[b].done
               /\ \A k \in 1..Len(docs) :
                     /\ docs[k] = IdsOf(map, NormTerms(tasks[b].records[k].content))
                     /\ \A j \in 1..Len(docs[k]) : docs[k][j] < Cardinality(DOMAIN map)
               /\ b \in DOMAIN cur =>
                     /\ tasks[b].st = "running"
                     /\ cur[b].term_ids = IdsOf(map, TermsOfCurrent(b))
                     /\ \A j \in 1..Len(cur[b].term_ids) :
                           cur[b].term_ids[j] < Cardinality(DOMAIN map)

\* run is inside the second record of a batch, has met a term of the first
\* record and a term twice, and has a raw term left
C18_Witness ==
    \E b \in DOMAIN cur :
        /\ cur[b].raws # <<>>
        /\ tasks[b].done = 1
        /\ Len(cur[b].term_ids) = 3
        /\ cur[b].term_ids[1] = cur[b].term_ids[3]
        /\ cur[b].term_ids[1] # cur[b].term_ids[2]
        /\ Cardinality(DOMAIN tasks[b].map) > 2


RECURSIVE LengthPositions(_, _)
LengthPositions(words, pos) ==
    IF pos > Len(words) THEN {}
    ELSE {pos} \cup LengthPositions(words, pos + words[pos] + 1)

\* C20: an iteration of the "Remapping IDs" loop for batch i changes the
\* index file of batch i only, and in it only term ids: the file keeps its
\* size, its header (the length word 1 and the number of documents) and the
\* length word of every document, every term id x becomes mapping[x] for the
\* mapping of batch i, applied once; every other batch file, the output
\* files and the term vectors are unchanged.
C20_RemapFrame ==
    [][pc = "remap" /\ batch' = batch + 1 =>
         LET name == batch_file(batch, "")
             old == Contents(name)
             new == bfs'[name]
             mapping == BatchMapping(
                            read_string_vector(Contents(batch_file(batch, ".terms"))))
         IN /\ DOMAIN bfs' = DOMAIN bfs
            /\ \A f \in DOMAIN bfs : f # name => bfs'[f] = bfs[f]
            /\ ofs' = ofs
            /\ terms' = terms /\ term_mapping' = term_mapping
            /\ Len(new) = Len(old)
            /\ new[1] = old[1] /\ new[2] = old[2]
            /\ LengthPositions(new, 1) = LengthPositions(old, 1)
            /\ \A q \in LengthPositions(old, 1) : new[q] = old[q]
            /\ \A q \in (3..Len(old)) \ LengthPositions(old, 1) :
                  new[q] = mapping[old[q] + 1]
            /\ Len(Documents(new)) = old[2]
    ]_vars

\* every batch of three or more has been remapped, and a document of two or
\* more ids no longer holds the local ids run gave it
C20_Witness ==
    /\ pc = "remap"
    /\ batch = batch_number
    /\ batch_number >= 3
    /\ \E b \in DOMAIN tasks : \E k \in 1..Len(tasks[b].records) :
          LET doc == Documents(Contents(batch_file(b, "")))[k]
          IN /\ Len(doc) >= 2
             /\ doc # IdsOf(tasks[b].map, NormTerms(tasks[b].records[k].content))

====
